---------------------------- MODULE Spec2Model ----------------------------
(***************************************************************************)
(* A model of mitesh1409/http-server-v2: the request listener of           *)
(* src/server.js and the in-memory product store it delegates to           *)
(* (models/product.model.js, kept in src/unnamed/part_000).                *)
(*                                                                         *)
(* Text is modelled at two grains.  A URL is a sequence of one-character   *)
(* strings, so that split('/'), startsWith and Number() are computed on    *)
(* the characters.  A JSON text is a sequence of lexical tokens, so that   *)
(* JSON.parse and JSON.stringify are a parser and a printer.               *)
(***************************************************************************)
EXTENDS Integers, Sequences, FiniteSets, TLC

(***************************************************************************)
(* JavaScript values.  An object is the ordered list of its own            *)
(* properties (insertion order is what JSON.stringify prints).             *)
(***************************************************************************)
Undefined == [k |-> "undefined"]
Null == [k |-> "null"]
NaN == [k |-> "NaN"]
Fraction == [k |-> "fraction"]
Num(n) == [k |-> "number", n |-> n]
Str(s) == [k |-> "string", s |-> s]
\* A string whose characters matter, as the sequence of its characters.
Chars(c) == [k |-> "chars", c |-> c]
Obj(p) == [k |-> "object", p |-> p]
Arr(a) == [k |-> "array", a |-> a]
Prop(key, val) == [key |-> key, val |-> val]

\* o.key throws a TypeError exactly when o is null or undefined.
Throws(o) == o.k \in {"null", "undefined"}

\* The position of own property key in the property list p, 0 when absent.
RECURSIVE KeyIndex(_, _, _)
KeyIndex(p, key, i) ==
    IF i > Len(p) THEN 0
    ELSE IF p[i].key = key THEN i
    ELSE KeyIndex(p, key, i + 1)

\* o.key for an o that does not throw: the own property of an object,
\* undefined on an object without it and on a number, a string or an array
\* (none of the keys read by the program is "length").
Get(o, key) ==
    IF o.k = "object" /\ KeyIndex(o.p, key, 1) > 0
    THEN o.p[KeyIndex(o.p, key, 1)].val
    ELSE Undefined

\* o.key = v on an object: overwrites in place, or appends a new property.
Set(o, key, v) ==
    LET i == KeyIndex(o.p, key, 1)
    IN  IF i > 0
        THEN Obj([o.p EXCEPT ![i] = Prop(key, v)])
        ELSE Obj(Append(o.p, Prop(key, v)))

\* a === b where b is a number: true only for the same number.
StrictEquals(a, b) == a.k = "number" /\ b.k = "number" /\ a.n = b.n

\* a ?? b
Coalesce(a, b) == IF a.k \in {"null", "undefined"} THEN b ELSE a

\* !v, for the values the handlers test (find's result, a boolean).
Falsy(v) ==
    \/ v.k \in {"undefined", "null", "NaN"}
    \/ v.k = "number" /\ v.n = 0
    \/ v.k = "string" /\ v.s = ""
    \/ v.k = "chars" /\ v.c = <<>>

(***************************************************************************)
(* Strings as character sequences: the request URL and what is cut from it *)
(***************************************************************************)
\* The first position >= i of character c in s, 0 when there is none.
RECURSIVE IndexOf(_, _, _)
IndexOf(s, c, i) ==
    IF i > Len(s) THEN 0
    ELSE IF s[i] = c THEN i
    ELSE IndexOf(s, c, i + 1)

\* s.split(sep) for a one-character separator.
RECURSIVE Split(_, _)
Split(s, sep) ==
    LET i == IndexOf(s, sep, 1)
    IN  IF i = 0 THEN <<s>>
        ELSE <<SubSeq(s, 1, i - 1)>> \o Split(SubSeq(s, i + 1, Len(s)), sep)

\* s.startsWith(prefix)
StartsWith(s, prefix) ==
    Len(s) >= Len(prefix) /\ SubSeq(s, 1, Len(prefix)) = prefix

Digits == {"0", "1", "2", "3", "4", "5", "6", "7", "8", "9"}
HexDigits == Digits \cup {"a", "b", "c", "d", "e", "f"}

DigitValue(c) ==
    CASE c = "0" -> 0 [] c = "1" -> 1 [] c = "2" -> 2 [] c = "3" -> 3
      [] c = "4" -> 4 [] c = "5" -> 5 [] c = "6" -> 6 [] c = "7" -> 7
      [] c = "8" -> 8 [] c = "9" -> 9 [] c = "a" -> 10 [] c = "b" -> 11
      [] c = "c" -> 12 [] c = "d" -> 13 [] c = "e" -> 14 [] c = "f" -> 15

\* The first position >= i of s that holds no character of set.
RECURSIVE SkipWhile(_, _, _)
SkipWhile(s, set, i) ==
    IF i <= Len(s) /\ s[i] \in set THEN SkipWhile(s, set, i + 1) ELSE i

\* The value of a digit string in the given base (0 for the empty string).
RECURSIVE DigitsValue(_, _)
DigitsValue(s, base) ==
    IF s = <<>> THEN 0
    ELSE DigitsValue(SubSeq(s, 1, Len(s) - 1), base) * base + DigitValue(s[Len(s)])

RECURSIVE Pow10(_)
Pow10(n) == IF n = 0 THEN 1 ELSE 10 * Pow10(n - 1)

\* mantissa * 10^exponent as a JavaScript number.
Scaled(mantissa, exponent) ==
    IF mantissa = 0 THEN Num(0)
    ELSE IF exponent >= 0 THEN Num(mantissa * Pow10(exponent))
    ELSE IF mantissa % Pow10(-exponent) = 0 THEN Num(mantissa \div Pow10(-exponent))
    ELSE Fraction

\* Number(s) for an unsigned literal s: the empty string is 0, 0x.. is
\* hexadecimal, digits[.digits][e[+-]digits] is decimal, the rest NaN.
UnsignedNumber(s) ==
    IF s = <<>> THEN Num(0)
    ELSE IF Len(s) >= 2 /\ s[1] = "0" /\ s[2] \in {"x", "X"}
    THEN IF Len(s) >= 3 /\ SkipWhile(s, HexDigits, 3) = Len(s) + 1
         THEN Num(DigitsValue(SubSeq(s, 3, Len(s)), 16))
         ELSE NaN
    ELSE LET i1 == SkipWhile(s, Digits, 1)
             dot == i1 <= Len(s) /\ s[i1] = "."
             i2 == IF dot THEN SkipWhile(s, Digits, i1 + 1) ELSE i1
             int == SubSeq(s, 1, i1 - 1)
             frac == IF dot THEN SubSeq(s, i1 + 1, i2 - 1) ELSE <<>>
             hasExp == i2 <= Len(s) /\ s[i2] \in {"e", "E"}
             signed == hasExp /\ i2 + 1 <= Len(s) /\ s[i2 + 1] \in {"+", "-"}
             i3 == IF signed THEN i2 + 2 ELSE i2 + 1
             i4 == IF hasExp THEN SkipWhile(s, Digits, i3) ELSE i2
             exp == IF hasExp THEN DigitsValue(SubSeq(s, i3, i4 - 1), 10) ELSE 0
             e == IF signed /\ s[i2 + 1] = "-" THEN -exp ELSE exp
         IN  IF int \o frac = <<>> \/ i4 # Len(s) + 1 \/ (hasExp /\ i4 = i3)
             THEN NaN
             ELSE Scaled(DigitsValue(int \o frac, 10), e - Len(frac))

\* Number(v) for v a string of the URL or undefined (a missing array
\* element).  Surrounding white space, which a parsed URL never holds, and
\* the literal Infinity are left out.
Number(v) ==
    IF v.k = "undefined" THEN NaN
    ELSE IF v.c # <<>> /\ v.c[1] \in {"+", "-"}
    THEN IF Len(v.c) = 1 \/ (Len(v.c) >= 3 /\ v.c[2] = "0" /\ v.c[3] \in {"x", "X"})
         THEN NaN
         ELSE LET u == UnsignedNumber(SubSeq(v.c, 2, Len(v.c)))
              IN  IF u.k = "number" /\ v.c[1] = "-" THEN Num(-u.n) ELSE u
    ELSE UnsignedNumber(v.c)

\* Number.isInteger(v)
NumberIsInteger(v) == v.k = "number"

(***************************************************************************)
(* JSON texts as token sequences; JSON.parse and JSON.stringify.           *)
(***************************************************************************)
LBrace == [t |-> "{"]
RBrace == [t |-> "}"]
LBracket == [t |-> "["]
RBracket == [t |-> "]"]
Comma == [t |-> ","]
Colon == [t |-> ":"]
TNull == [t |-> "null"]
TNum(n) == [t |-> "num", n |-> n]
TStr(s) == [t |-> "str", s |-> s]
\* The token of a string kept as its characters.
TChars(c) == [t |-> "chars", c |-> c]
\* A body that is not JSON at all (the text of an HTML or plain response).
Raw(s) == [t |-> "raw", s |-> s]

ParseFail == [ok |-> FALSE, v |-> Undefined, next |-> 0]
ParseOk(v, next) == [ok |-> TRUE, v |-> v, next |-> next]

RECURSIVE ParseValue(_, _)
RECURSIVE ParseMembers(_, _, _)
RECURSIVE ParseElements(_, _, _)

\* One JSON value starting at token i of text.
ParseValue(text, i) ==
    IF i > Len(text) THEN ParseFail
    ELSE CASE text[i].t = "null" -> ParseOk(Null, i + 1)
           [] text[i].t = "num" -> ParseOk(Num(text[i].n), i + 1)
           [] text[i].t = "str" -> ParseOk(Str(text[i].s), i + 1)
           [] text[i].t = "{" ->
                IF i + 1 <= Len(text) /\ text[i + 1].t = "}"
                THEN ParseOk(Obj(<<>>), i + 2)
                ELSE ParseMembers(text, i + 1, Obj(<<>>))
           [] text[i].t = "[" ->
                IF i + 1 <= Len(text) /\ text[i + 1].t = "]"
                THEN ParseOk(Arr(<<>>), i + 2)
                ELSE ParseElements(text, i + 1, <<>>)
           [] OTHER -> ParseFail

\* "key": value pairs up to the closing brace; a repeated key overwrites.
ParseMembers(text, i, acc) ==
    IF i + 1 <= Len(text) /\ text[i].t = "str" /\ text[i + 1].t = ":"
    THEN LET r == ParseValue(text, i + 2)
             o == Set(acc, text[i].s, r.v)
         IN  IF ~r.ok \/ r.next > Len(text) THEN ParseFail
             ELSE IF text[r.next].t = "," THEN ParseMembers(text, r.next + 1, o)
             ELSE IF text[r.next].t = "}" THEN ParseOk(o, r.next + 1)
             ELSE ParseFail
    ELSE ParseFail

ParseElements(text, i, acc) ==
    LET r == ParseValue(text, i)
    IN  IF ~r.ok \/ r.next > Len(text) THEN ParseFail
        ELSE IF text[r.next].t = "," THEN ParseElements(text, r.next + 1, Append(acc, r.v))
        ELSE IF text[r.next].t = "]" THEN ParseOk(Arr(Append(acc, r.v)), r.next + 1)
        ELSE ParseFail

\* JSON.parse(text): the value, or a SyntaxError (ok = FALSE) when text is
\* not exactly one JSON value.
JSONparse(text) ==
    LET r == ParseValue(text, 1)
    IN  IF r.ok /\ r.next = Len(text) + 1
        THEN [ok |-> TRUE, v |-> r.v]
        ELSE [ok |-> FALSE, v |-> Undefined]

RECURSIVE JSONstringify(_)
RECURSIVE StringifyProps(_, _, _)
RECURSIVE StringifyElems(_, _)

\* The properties p[i..] of an object; a property whose value is undefined
\* is left out.  first: no property has been printed yet.
StringifyProps(p, i, first) ==
    IF i > Len(p) THEN <<>>
    ELSE IF p[i].val.k = "undefined" THEN StringifyProps(p, i + 1, first)
    ELSE (IF first THEN <<>> ELSE <<Comma>>)
         \o <<TStr(p[i].key), Colon>> \o JSONstringify(p[i].val)
         \o StringifyProps(p, i + 1, FALSE)

StringifyElems(a, i) ==
    IF i > Len(a) THEN <<>>
    ELSE (IF i = 1 THEN <<>> ELSE <<Comma>>)
         \o JSONstringify(a[i]) \o StringifyElems(a, i + 1)

JSONstringify(v) ==
    CASE v.k = "number" -> <<TNum(v.n)>>
      [] v.k = "string" -> <<TStr(v.s)>>
      [] v.k = "chars" -> <<TChars(v.c)>>
      [] v.k = "object" -> <<LBrace>> \o StringifyProps(v.p, 1, TRUE) \o <<RBrace>>
      [] v.k = "array" -> <<LBracket>> \o StringifyElems(v.a, 1) \o <<RBracket>>
      [] OTHER -> <<TNull>>

(***************************************************************************)
(* The product store (models/product.model.js).  Every operation takes the *)
(* array and returns its result, the array afterwards, and whether it      *)
(* threw instead of returning.                                             *)
(***************************************************************************)
SeedProducts ==
    << Obj(<<Prop("id", Num(1001)), Prop("title", Str("T-Shirt")),
             Prop("sku", Str("ABC-1001")), Prop("price", Num(49900))>>),
       Obj(<<Prop("id", Num(1002)), Prop("title", Str("Cap")),
             Prop("sku", Str("ABC-1002")), Prop("price", Num(19900))>>),
       Obj(<<Prop("id", Num(1003)), Prop("title", Str("Jeans")),
             Prop("sku", Str("ABC-1003")), Prop("price", Num(99900))>>) >>

\* The scan shared by Array.prototype.find and findIndex with the callback
\* product => product.id === id: the 0-based index of the first match from
\* position i on, -1 when there is none; thrown when the callback reads .id
\* of null before any match.
RECURSIVE ScanForId(_, _, _)
ScanForId(arr, id, i) ==
    IF i > Len(arr) THEN [thrown |-> FALSE, index |-> -1]
    ELSE IF Throws(arr[i]) THEN [thrown |-> TRUE, index |-> -1]
    ELSE IF StrictEquals(Get(arr[i], "id"), id) THEN [thrown |-> FALSE, index |-> i - 1]
    ELSE ScanForId(arr, id, i + 1)

\* products.splice(targetIndex): without the count, everything from the
\* index to the end goes.
SpliceToEnd(arr, index) == SubSeq(arr, 1, index)

\* arr.splice(index, 1) for a 0-based index within arr.
Splice1(arr, index) ==
    SubSeq(arr, 1, index) \o SubSeq(arr, index + 2, Len(arr))

all(ps) == ps

getById(ps, id) ==
    LET r == ScanForId(ps, id, 1)
    IN  [thrown |-> r.thrown,
         ret |-> IF r.thrown \/ r.index = -1 THEN Undefined ELSE ps[r.index + 1]]

\* products.unshift(product): the new record first, not last.
addFirst(ps, product) == <<product>> \o ps

add(ps, product) == Append(ps, product)

remove(ps, id) ==
    LET r == ScanForId(ps, id, 1)
    IN  IF r.thrown THEN [thrown |-> TRUE, ret |-> FALSE, products |-> ps]
        ELSE IF r.index = -1 THEN [thrown |-> FALSE, ret |-> FALSE, products |-> ps]
        ELSE [thrown |-> FALSE, ret |-> TRUE, products |-> Splice1(ps, r.index)]

\* One line of update: target.key = data.key ?? target.key
UpdateField(target, data, key) ==
    Set(target, key, Coalesce(Get(data, key), Get(target, key)))

\* An update that stops after the assignment of the title, as if the
\* store could be seen between two of its assignments: what update is not.
updateTorn(ps, id, data) ==
    LET r == ScanForId(ps, id, 1)
    IN  IF r.thrown THEN [thrown |-> TRUE, ret |-> FALSE, products |-> ps]
        ELSE IF r.index = -1 THEN [thrown |-> FALSE, ret |-> FALSE, products |-> ps]
        ELSE IF Throws(data) THEN [thrown |-> TRUE, ret |-> FALSE, products |-> ps]
        ELSE [thrown |-> FALSE, ret |-> TRUE,
              products |-> [ps EXCEPT ![r.index + 1] =
                                UpdateField(ps[r.index + 1], data, "title")]]

update(ps, id, data) ==
    LET r == ScanForId(ps, id, 1)
    IN  IF r.thrown THEN [thrown |-> TRUE, ret |-> FALSE, products |-> ps]
        ELSE IF r.index = -1 THEN [thrown |-> FALSE, ret |-> FALSE, products |-> ps]
        ELSE IF Throws(data) THEN [thrown |-> TRUE, ret |-> FALSE, products |-> ps]
        ELSE LET t1 == UpdateField(ps[r.index + 1], data, "title")
                 t2 == UpdateField(t1, data, "sku")
                 t3 == UpdateField(t2, data, "price")
             IN  [thrown |-> FALSE, ret |-> TRUE,
                  products |-> [ps EXCEPT ![r.index + 1] = t3]]

(***************************************************************************)
(* src/server.js: the URL, the responses, the static files.                *)
(***************************************************************************)
\* The first ? of the URL, 0 when there is none.
QueryMark(url) == IndexOf(url, "?", 1)

\* url.parse(req.url, true).pathname
Pathname(url) ==
    IF QueryMark(url) = 0 THEN url ELSE SubSeq(url, 1, QueryMark(url) - 1)

\* The values of key in the query string, in order: the text after the
\* first ? is cut at every &, and each piece at its first =.
RECURSIVE ValuesOf(_, _)
ValuesOf(pieces, key) ==
    IF pieces = <<>> THEN <<>>
    ELSE LET piece == Head(pieces)
             eq == IndexOf(piece, "=", 1)
             name == IF eq = 0 THEN piece ELSE SubSeq(piece, 1, eq - 1)
             value == IF eq = 0 THEN <<>> ELSE SubSeq(piece, eq + 1, Len(piece))
         IN  (IF name = key /\ piece # <<>> THEN <<Chars(value)>> ELSE <<>>)
             \o ValuesOf(Tail(pieces), key)

\* url.parse(req.url, true).query[key]: undefined, the value, or the array
\* of the values of a repeated key.
Query(url, key) ==
    LET vs == IF QueryMark(url) = 0 THEN <<>>
              ELSE ValuesOf(Split(SubSeq(url, QueryMark(url) + 1, Len(url)), "&"), key)
    IN  IF vs = <<>> THEN Undefined
        ELSE IF Len(vs) = 1 THEN vs[1]
        ELSE Arr(vs)

\* A response as res.end leaves it: status, Content-Type, body text.
Response(status, type, body) == [status |-> status, type |-> type, body |-> body]
NoResponse == Response(0, "", <<>>)

textResponse(statusCode, data) == Response(statusCode, "text/plain", <<Raw(data)>>)

htmlResponse(statusCode, data) == Response(statusCode, "text/html", <<Raw(data)>>)

jsonResponse(statusCode, data) ==
    Response(statusCode, "application/json", JSONstringify(data))

notFoundResponse == htmlResponse(404, "<h1>404 | Not Found</h1>")

\* What one run of the request listener, or of one of its callbacks, did:
\* the response it sent (status 0: none), the store it left, whether it
\* threw, and what it is left waiting for ("body": the data and end events
\* of the request, "stream": the read stream of a static file).
Result(route, response, ps) ==
    [route |-> route, thrown |-> FALSE, response |-> response, products |-> ps,
     listen |-> "none", id |-> NaN, file |-> <<>>]
Thrown(route, ps) == [Result(route, NoResponse, ps) EXCEPT !.thrown = TRUE]
Listening(route, id, ps) ==
    [Result(route, NoResponse, ps) EXCEPT !.listen = "body", !.id = id]
Streaming(route, response, file, ps) ==
    [Result(route, response, ps) EXCEPT !.listen = "stream", !.file = file]

\* The last position of character c in s, 0 when there is none.
RECURSIVE LastIndexOf(_, _, _)
LastIndexOf(s, c, i) ==
    IF i = 0 THEN 0
    ELSE IF s[i] = c THEN i
    ELSE LastIndexOf(s, c, i - 1)

LowerCase ==
    <<"a", "b", "c", "d", "e", "f", "g", "h", "i", "j", "k", "l", "m",
      "n", "o", "p", "q", "r", "s", "t", "u", "v", "w", "x", "y", "z">>
UpperCase ==
    <<"A", "B", "C", "D", "E", "F", "G", "H", "I", "J", "K", "L", "M",
      "N", "O", "P", "Q", "R", "S", "T", "U", "V", "W", "X", "Y", "Z">>

\* s.toUpperCase() and s.toLowerCase(), character by character.
ToUpperCase(s) ==
    [i \in 1..Len(s) |->
        IF \E j \in 1..Len(LowerCase) : LowerCase[j] = s[i]
        THEN UpperCase[CHOOSE j \in 1..Len(LowerCase) : LowerCase[j] = s[i]]
        ELSE s[i]]
ToLowerCase(s) ==
    [i \in 1..Len(s) |->
        IF \E j \in 1..Len(UpperCase) : UpperCase[j] = s[i]
        THEN LowerCase[CHOOSE j \in 1..Len(UpperCase) : UpperCase[j] = s[i]]
        ELSE s[i]]

\* s.split('').reverse().join('')
Backwards(s) == [i \in 1..Len(s) |-> s[Len(s) + 1 - i]]

\* The file system the server runs on, as paths (sequences of names) from
\* the root: the directory of server.js, its public directory and the
\* files in them.
Dirname == <<"a", "p", "p">>
Public == <<"p", "u", "b", "l", "i", "c">>
StyleCss == <<"s", "t", "y", "l", "e", ".", "c", "s", "s">>
ServerJs == <<"s", "e", "r", "v", "e", "r", ".", "j", "s">>
IndexHtml == <<"i", "n", "d", "e", "x", ".", "h", "t", "m", "l">>
CatJpg == <<"c", "a", "t", ".", "j", "p", "g">>
PhotoJPG == <<"p", "h", "o", "t", "o", ".", "J", "P", "G">>
PicJpeg == <<"p", "i", "c", ".", "j", "p", "e", "g">>
LogoPng == <<"l", "o", "g", "o", ".", "p", "n", "g">>
AppJs == <<"a", "p", "p", ".", "j", "s">>
DocPdf == <<"d", "o", "c", ".", "p", "d", "f">>
DataCsv == <<"d", "a", "t", "a", ".", "c", "s", "v">>
NotesTxt == <<"n", "o", "t", "e", "s", ".", "t", "x", "t">>
Readme == <<"R", "E", "A", "D", "M", "E">>
ArchiveZip == <<"a", "r", "c", "h", "i", "v", "e", ".", "z", "i", "p">>
DotEnv == <<".", "e", "n", "v">>
\* The files of the public directory.
PublicFiles ==
    { StyleCss, IndexHtml, CatJpg, PhotoJPG, PicJpeg, LogoPng, AppJs, DocPdf,
      DataCsv, NotesTxt, Readme, ArchiveZip, DotEnv }
Directories == { <<>>, <<Dirname>>, <<Dirname, Public>> }
Files == { <<Dirname, Public, name>> : name \in PublicFiles } \cup { <<Dirname, ServerJs>> }

\* path.join's normalisation: "." and empty names dropped, ".." removing
\* the name before it (and nothing at the root).
RECURSIVE Normalize(_, _)
Normalize(names, acc) ==
    IF names = <<>> THEN acc
    ELSE IF Head(names) \in { <<>>, <<".">> } THEN Normalize(Tail(names), acc)
    ELSE IF Head(names) = <<".", ".">>
    THEN Normalize(Tail(names), IF acc = <<>> THEN acc ELSE SubSeq(acc, 1, Len(acc) - 1))
    ELSE Normalize(Tail(names), Append(acc, Head(names)))

\* path.join(__dirname, 'public', rest)
PathJoin(rest) == Normalize(<<Dirname, Public>> \o Split(rest, "/"), <<>>)

\* fs.existsSync(filePath)
ExistsSync(filePath) == filePath \in Files \cup Directories

\* path.extname(filePath): from the last dot of the last name, unless that
\* dot is its first character or there is none.
Extname(filePath) ==
    IF filePath = <<>> THEN <<>>
    ELSE LET base == filePath[Len(filePath)]
             dot == LastIndexOf(base, ".", Len(base))
         IN  IF dot <= 1 THEN <<>> ELSE SubSeq(base, dot, Len(base))

\* The switch without its default branch: contentType keeps its initial
\* 'text/plain' for an extension that no case names.
ContentTypeNoDefault(ext) ==
    CASE ext = <<".", "h", "t", "m", "l">> -> "text/html"
      [] ext \in { <<".", "j", "p", "g">>, <<".", "j", "p", "e", "g">> } -> "image/jpeg"
      [] ext = <<".", "p", "n", "g">> -> "image/png"
      [] ext = <<".", "c", "s", "s">> -> "text/css"
      [] ext = <<".", "j", "s">> -> "application/javascript"
      [] ext = <<".", "p", "d", "f">> -> "application/pdf"
      [] ext = <<".", "c", "s", "v">> -> "text/csv"
      [] OTHER -> "text/plain"

\* The switch of staticFileResponse.
ContentType(ext) ==
    CASE ext = <<".", "h", "t", "m", "l">> -> "text/html"
      [] ext \in { <<".", "j", "p", "g">>, <<".", "j", "p", "e", "g">> } -> "image/jpeg"
      [] ext = <<".", "p", "n", "g">> -> "image/png"
      [] ext = <<".", "c", "s", "s">> -> "text/css"
      [] ext = <<".", "j", "s">> -> "application/javascript"
      [] ext = <<".", "p", "d", "f">> -> "application/pdf"
      [] ext = <<".", "c", "s", "v">> -> "text/csv"
      [] ext = <<".", "t", "x", "t">> -> "text/plain"
      [] OTHER -> "application/octet-stream"

\* staticFileResponse up to readStream.pipe(res): 404 for a path that does
\* not exist, otherwise the 200 head is written and the stream is awaited.
staticFileResponse(filePath, ps) ==
    IF ~ExistsSync(filePath)
    THEN Result("static", notFoundResponse, ps)
    ELSE Streaming("static",
                   Response(200, ContentType(ToLowerCase(Extname(filePath))), <<>>),
                   filePath, ps)

\* The literals the listener compares the path with.
PathRoot == <<"/">>
PathHome == <<"/", "h", "o", "m", "e">>
PathPlainText == <<"/", "p", "l", "a", "i", "n", "-", "t", "e", "x", "t">>
PathJson == <<"/", "j", "s", "o", "n">>
PathEcho == <<"/", "e", "c", "h", "o">>
PathStatic == <<"/", "s", "t", "a", "t", "i", "c", "/">>
NameProducts == <<"p", "r", "o", "d", "u", "c", "t", "s">>
Hello == <<"H", "e", "l", "l", "o">>

\* a || b
OrElse(a, b) == IF Falsy(a) THEN b ELSE a

\* The body of the /echo rule, given input: toUpperCase is a method of
\* strings only, so an array throws.
echoData(input, ps) ==
    IF input.k # "chars"
    THEN Thrown("echo", ps)
    ELSE Result("echo",
                jsonResponse(200,
                    Obj(<<Prop("normal", input),
                          Prop("shouty", Chars(ToUpperCase(input.c))),
                          Prop("characterCount", Num(Len(input.c))),
                          Prop("backwards", Chars(Backwards(input.c)))>>)),
                ps)

\* GET /echo
echo(url, ps) ==
    echoData(OrElse(Query(url, <<"i", "n", "p", "u", "t">>), Chars(Hello)), ps)

\* GET /products
listProducts(ps) ==
    Result("GET /products",
           jsonResponse(200, Obj(<<Prop("status", Str("OK")),
                                   Prop("products", Arr(all(ps)))>>)),
           ps)

\* GET /products/{product}
getProduct(resourceId, ps) ==
    LET product == getById(ps, resourceId)
    IN  IF product.thrown THEN Thrown("GET /products/{product}", ps)
        ELSE IF Falsy(product.ret)
        THEN Result("GET /products/{product}",
                    jsonResponse(404, Obj(<<Prop("status", Str("Not Found"))>>)), ps)
        ELSE Result("GET /products/{product}",
                    jsonResponse(200, Obj(<<Prop("status", Str("OK")),
                                            Prop("product", product.ret)>>)), ps)

\* DELETE /products/{product}
deleteProduct(resourceId, ps) ==
    LET removed == remove(ps, resourceId)
    IN  IF removed.thrown THEN Thrown("DELETE /products/{product}", ps)
        ELSE IF ~removed.ret
        THEN Result("DELETE /products/{product}",
                    jsonResponse(404, Obj(<<Prop("status", Str("Not Found"))>>)),
                    removed.products)
        ELSE Result("DELETE /products/{product}",
                    jsonResponse(200, Obj(<<Prop("status", Str("OK"))>>)),
                    removed.products)

\* A POST /products that answers 201 from the listener itself, before any
\* of the body has arrived: what postProducts must not be.
postProductsEager(ps) ==
    Result("POST /products",
           jsonResponse(201,
               Obj(<<Prop("status", Str("Created")),
                     Prop("message", Str("Product created successfully"))>>)),
           ps)

\* POST /products, up to its return: the data and end listeners are
\* registered, nothing is sent and the store is not touched.
postProducts(ps) == Listening("POST /products", NaN, ps)

\* PATCH /products/{product}, up to its return.
patchProduct(resourceId, ps) == Listening("PATCH /products/{product}", resourceId, ps)

\* reqUrlParts[i] with i counted from 0: undefined past the end.
PartAt(reqUrlParts, i) ==
    IF i + 1 <= Len(reqUrlParts) THEN Chars(reqUrlParts[i + 1]) ELSE Undefined

\* The REST rules of the listener, given the number of parts of the path,
\* resource = reqUrlParts[1] and resourceId = Number(reqUrlParts[2]).
ProductRoutes(method, length, resource, resourceId, ps) ==
    IF method = "GET" /\ length = 2 /\ resource = Chars(NameProducts)
    THEN listProducts(ps)
    ELSE IF method = "POST" /\ length = 2 /\ resource = Chars(NameProducts)
    THEN postProducts(ps)
    ELSE IF method = "GET" /\ length = 3 /\ resource = Chars(NameProducts)
            /\ NumberIsInteger(resourceId)
    THEN getProduct(resourceId, ps)
    ELSE IF method = "PATCH" /\ length = 3 /\ resource = Chars(NameProducts)
            /\ NumberIsInteger(resourceId)
    THEN patchProduct(resourceId, ps)
    ELSE IF method = "DELETE" /\ length = 3 /\ resource = Chars(NameProducts)
            /\ NumberIsInteger(resourceId)
    THEN deleteProduct(resourceId, ps)
    ELSE Result("fallback", notFoundResponse, ps)

\* const reqUrlParts = pathname.split('/') and the two constants cut from it.
SplitRoutes(method, reqUrlParts, ps) ==
    ProductRoutes(method, Len(reqUrlParts), PartAt(reqUrlParts, 1),
                  Number(PartAt(reqUrlParts, 2)), ps)

\* The rules of the listener in their order, given the pathname: the first
\* rule that matches returns.
Routes(method, url, pathname, ps) ==
    IF method = "GET" /\ (pathname = PathRoot \/ pathname = PathHome)
    THEN Result("home", htmlResponse(200, "<h1>Node.js HTTP Server | Routing</h1>"), ps)
    ELSE IF method = "GET" /\ pathname = PathPlainText
    THEN Result("plain-text", textResponse(200, "This is a plain text response."), ps)
    ELSE IF method = "GET" /\ pathname = PathJson
    THEN Result("json",
                jsonResponse(200, Obj(<<Prop("greetings",
                                             Str("Hello Node.js HTTP Server!"))>>)),
                ps)
    ELSE IF method = "GET" /\ pathname = PathEcho
    THEN echo(url, ps)
    ELSE IF method = "GET" /\ StartsWith(pathname, PathStatic)
    THEN staticFileResponse(
             PathJoin(SubSeq(pathname, Len(PathStatic) + 1, Len(pathname))), ps)
    ELSE SplitRoutes(method, Split(pathname, "/"), ps)

\* The request listener of http.createServer.
RequestListener(method, url, ps) == Routes(method, url, Pathname(url), ps)

\* req.on('data', chunk => reqDataChunks.push(chunk))
OnData(reqDataChunks, chunk) == Append(reqDataChunks, chunk)

\* Buffer.concat(reqDataChunks).toString('utf8'): the chunks end to end.
RECURSIVE BufferConcat(_)
BufferConcat(reqDataChunks) ==
    IF reqDataChunks = <<>> THEN <<>>
    ELSE Head(reqDataChunks) \o BufferConcat(Tail(reqDataChunks))

\* The end callback of POST /products.
postProductsEnd(reqDataChunks, ps) ==
    LET productData == JSONparse(BufferConcat(reqDataChunks))
    IN  IF ~productData.ok THEN Thrown("POST /products", ps)
        ELSE Result("POST /products",
                    jsonResponse(201,
                        Obj(<<Prop("status", Str("Created")),
                              Prop("message", Str("Product created successfully"))>>)),
                    add(ps, productData.v))

\* An end callback of PATCH that catches the SyntaxError of JSON.parse and
\* answers 400: what patchProductEnd does not do.
patchProductEndCaught(reqDataChunks, resourceId, ps) ==
    LET productData == JSONparse(BufferConcat(reqDataChunks))
        isUpdated == update(ps, resourceId, productData.v)
    IN  IF ~productData.ok
        THEN Result("PATCH /products/{product}",
                    jsonResponse(400, Obj(<<Prop("status", Str("Bad Request"))>>)), ps)
        ELSE IF isUpdated.thrown
        THEN Thrown("PATCH /products/{product}", ps)
        ELSE IF ~isUpdated.ret
        THEN Result("PATCH /products/{product}",
                    jsonResponse(404, Obj(<<Prop("status", Str("Not Found"))>>)),
                    isUpdated.products)
        ELSE Result("PATCH /products/{product}",
                    jsonResponse(200, Obj(<<Prop("status", Str("OK"))>>)),
                    isUpdated.products)

\* The end callback of PATCH /products/{product}.
patchProductEnd(reqDataChunks, resourceId, ps) ==
    LET productData == JSONparse(BufferConcat(reqDataChunks))
        isUpdated == update(ps, resourceId, productData.v)
    IN  IF ~productData.ok \/ isUpdated.thrown
        THEN Thrown("PATCH /products/{product}", ps)
        ELSE IF ~isUpdated.ret
        THEN Result("PATCH /products/{product}",
                    jsonResponse(404, Obj(<<Prop("status", Str("Not Found"))>>)),
                    isUpdated.products)
        ELSE Result("PATCH /products/{product}",
                    jsonResponse(200, Obj(<<Prop("status", Str("OK"))>>)),
                    isUpdated.products)

\* The error listener of the read stream: res.writeHead(500, ...) throws
\* ERR_HTTP_HEADERS_SENT when a head has been written already.
readStreamError(head, ps) ==
    IF head.status # 0
    THEN Thrown("static", ps)
    ELSE Result("static",
                Response(500, "text/html; charset=utf-8",
                         <<Raw("<h1>500 | Internal Server Error</h1>")>>), ps)

(***************************************************************************)
(* The requests the model sends.                                           *)
(***************************************************************************)
Methods == {"GET", "POST", "PATCH", "DELETE", "PUT"}

PathProducts == <<"/">> \o NameProducts
Path1001 == PathProducts \o <<"/", "1", "0", "0", "1">>
Path2000 == PathProducts \o <<"/", "2", "0", "0", "0">>

\* The texts tried as the {product} part of /products/{product}.
Segments ==
    { <<"1", "0", "0", "1">>, <<"2", "0", "0", "0">>, <<>>, <<"1", "e", "3">>,
      <<"0", "x", "1", "0">>, <<"1", "0", "0", "1", ".", "0">>, <<"a", "b", "c">> }

Urls ==
    { PathRoot, PathHome, PathPlainText, PathJson, PathEcho,
      PathEcho \o <<"?", "i", "n", "p", "u", "t", "=", "a", "B">>,
      PathEcho \o <<"?", "i", "n", "p", "u", "t", "=">>,
      PathEcho \o <<"?", "i", "n", "p", "u", "t", "=", "a", "&",
                    "i", "n", "p", "u", "t", "=", "b">>,
      PathStatic \o StyleCss,
      PathStatic \o <<"m", "i", "s", "s", "i", "n", "g", ".", "t", "x", "t">>,
      PathStatic,
      PathStatic \o <<".", ".", "/">> \o ServerJs,
      PathProducts,
      Path1001 \o <<"/", "2">>,
      <<"/", "m", "e", "r", "n">> }
    \cup { PathProducts \o <<"/">> \o seg : seg \in Segments }

\* Request bodies, as JSON texts.
Member(key, value) == <<TStr(key), Colon, value>>
BodyHat ==
    <<LBrace>> \o Member("id", TNum(2000)) \o <<Comma>> \o Member("title", TStr("Hat"))
    \o <<Comma>> \o Member("sku", TStr("X-1")) \o <<Comma>>
    \o Member("price", TNum(1000)) \o <<RBrace>>
BodyCopy ==
    <<LBrace>> \o Member("id", TNum(1001)) \o <<Comma>> \o Member("title", TStr("Copy"))
    \o <<Comma>> \o Member("stock", TNum(3)) \o <<RBrace>>
BodyZero == <<LBrace>> \o Member("price", TNum(0)) \o <<RBrace>>
BodyBlank ==
    <<LBrace>> \o Member("title", TStr("")) \o <<Comma>> \o Member("sku", TStr(""))
    \o <<RBrace>>
BodyEmptyObject == <<LBrace, RBrace>>
BodyNullPrice == <<LBrace>> \o Member("price", TNull) \o <<RBrace>>
BodyNull == <<TNull>>
BodyArray == <<LBracket, RBracket>>
BodyBroken == <<LBrace, TStr("price"), Colon>>
BodyNone == <<>>

Bodies ==
    { BodyHat, BodyCopy, BodyZero, BodyBlank, BodyEmptyObject, BodyNullPrice,
      BodyNull, BodyArray, BodyBroken, BodyNone }

(***************************************************************************)
(* The server as a state machine.                                          *)
(***************************************************************************)
VARIABLES
    products,   \* the array of the product model
    pending,    \* the requests whose listener returned with callbacks registered
    crashed,    \* an exception left a listener or a callback: the process is gone
    nreq,       \* the number of requests received (of calls, for the store alone)
    last        \* the last event: the request it belongs to and what it did

vars == <<products, pending, crashed, nreq, last>>

\* The event of request n: ev is "request" (the listener ran), "data",
\* "end", "stream-end" or "stream-error" (a callback ran); r is what the
\* run did, sent the body the client sent and reqDataChunks what the
\* callbacks had collected of it when the event began.
Event(ev, n, method, url, sent, reqDataChunks, r) ==
    [ev |-> ev, n |-> n, method |-> method, url |-> url, sent |-> sent,
     reqDataChunks |-> reqDataChunks, route |-> r.route,
     response |-> r.response, thrown |-> r.thrown]

Init ==
    /\ products = SeedProducts
    /\ pending = {}
    /\ crashed = FALSE
    /\ nreq = 0
    /\ last = Event("start", 0, "", <<>>, <<>>, <<>>, Result("", NoResponse, SeedProducts))

\* The listener ran to its return with result r; sent is the body the
\* client sends, of which the listener has seen nothing yet.
Arrive(method, url, sent, r) ==
    /\ sent # <<>> => r.listen = "body"
    /\ products' = r.products
    /\ crashed' = r.thrown
    /\ nreq' = nreq + 1
    /\ pending' =
         IF r.listen = "none" THEN pending
         ELSE pending \cup
                {[n |-> nreq + 1, method |-> method, url |-> url,
                  listen |-> r.listen, id |-> r.id, file |-> r.file,
                  head |-> r.response, reqDataChunks |-> <<>>,
                  rest |-> sent, sent |-> sent]}
    /\ last' = Event("request", nreq + 1, method, url, <<>>, <<>>, r)

\* A request arrives.
Request(method, url, sent) ==
    /\ ~crashed
    /\ Arrive(method, url, sent, RequestListener(method, url, products))

\* The lengths of the next chunk of a body of which rest is still to come:
\* all of it, or, while another data event may follow, its first token.
ChunkLengths(p, maxChunks) ==
    {Len(p.rest)} \cup (IF Len(p.reqDataChunks) + 1 < maxChunks THEN {1} ELSE {})

\* A data event of a pending request: the next k tokens of its body.
Data(p, k) ==
    /\ ~crashed
    /\ p.listen = "body"
    /\ p.rest # <<>>
    /\ pending' = (pending \ {p}) \cup
                    {[p EXCEPT !.reqDataChunks = OnData(@, SubSeq(p.rest, 1, k)),
                               !.rest = SubSeq(p.rest, k + 1, Len(p.rest))]}
    /\ last' = Event("data", p.n, p.method, p.url, p.sent, p.reqDataChunks,
                     Result("", NoResponse, products))
    /\ UNCHANGED <<products, crashed, nreq>>

\* A callback of pending request p ran to its return with result r.
Finish(ev, p, r) ==
    /\ products' = r.products
    /\ crashed' = r.thrown
    /\ pending' = pending \ {p}
    /\ last' = Event(ev, p.n, p.method, p.url, p.sent, p.reqDataChunks, r)
    /\ UNCHANGED nreq

\* The end event of a pending request, once its whole body has come.
End(p) ==
    /\ ~crashed
    /\ p.listen = "body"
    /\ p.rest = <<>>
    /\ Finish("end", p,
              IF p.method = "POST"
              THEN postProductsEnd(p.reqDataChunks, products)
              ELSE patchProductEnd(p.reqDataChunks, p.id, products))

\* The read stream of a static file ends: the file has been piped.
StreamEnd(p) ==
    /\ ~crashed
    /\ p.listen = "stream"
    /\ p.file \in Files
    /\ Finish("stream-end", p, Result("static", p.head, products))

\* The read stream fails: the path is a directory, or the file went away
\* or cannot be read.
StreamError(p) ==
    /\ ~crashed
    /\ p.listen = "stream"
    /\ Finish("stream-error", p, readStreamError(p.head, products))

\* Requests arrive while fewer than maxReqs have.
Requests(methods, urls, bodies, maxReqs) ==
    /\ nreq < maxReqs
    /\ \E method \in methods, url \in urls, sent \in bodies :
         Request(method, url, sent)

\* The data and end events of the pending requests.
BodyEvents(maxChunks) ==
    \/ \E p \in pending : \E k \in ChunkLengths(p, maxChunks) : Data(p, k)
    \/ \E p \in pending : End(p)

\* The events of the read streams.
StreamEvents ==
    \/ \E p \in pending : StreamEnd(p)
    \/ \E p \in pending : StreamError(p)

\* The bounds: the requests of one run of each specification, the data
\* events of one body, the calls of one run of the store alone.
MaxReqs == 1
BodyReqs == 2
ProductReqs == 3
MaxChunks == 2
MaxCalls == 3

\* The whole server: every method on every URL.
Next ==
    \/ Requests(Methods, Urls, Bodies, MaxReqs)
    \/ BodyEvents(MaxChunks)
    \/ StreamEvents

Spec == Init /\ [][Next]_vars

\* The REST methods on the collection and on one item, with few bodies:
\* requests overlap, bodies come in pieces.
RestMethods == {"GET", "POST", "PATCH", "DELETE"}

NextBodies ==
    \/ Requests(RestMethods, {PathProducts, Path1001},
                {BodyNone, BodyZero, BodyNull, BodyBroken}, BodyReqs)
    \/ BodyEvents(MaxChunks)

SpecBodies == Init /\ [][NextBodies]_vars

\* The REST methods on the collection and on two items, in longer runs;
\* every body comes in one piece.
NextProducts ==
    \/ Requests(RestMethods, {PathProducts, Path1001, Path2000},
                {BodyNone, BodyHat, BodyCopy, BodyZero, BodyNull}, ProductReqs)
    \/ BodyEvents(1)

SpecProducts == Init /\ [][NextProducts]_vars

(***************************************************************************)
(* The product model alone: its exported functions, called with the        *)
(* arguments the server can pass (an integer id, any parsed JSON value).   *)
(***************************************************************************)
Bool(b) == [k |-> "boolean", b |-> b]

\* The call op(id, arg) returned ret, or threw.
Call(op, id, arg, ret, thrown) ==
    [ev |-> "call", op |-> op, id |-> id, arg |-> arg, ret |-> ret, thrown |-> thrown]

\* The values JSON.parse gives for the bodies of the model.
Values == { JSONparse(body).v : body \in { b \in Bodies : JSONparse(b).ok } }

Ids == { Num(1001), Num(1002), Num(2000) }

\* op(id, arg) was called and returned ret, or threw.
Returned(op, id, arg, ret, thrown) ==
    /\ nreq < MaxCalls
    /\ nreq' = nreq + 1
    /\ last' = Call(op, id, arg, ret, thrown)
    /\ UNCHANGED <<pending, crashed>>

\* A call of remove or update returned r.
Modified(op, id, arg, r) ==
    /\ products' = r.products
    /\ Returned(op, id, arg, Bool(r.ret), r.thrown)

\* A call of getById returned r.
Found(id, r) ==
    /\ UNCHANGED products
    /\ Returned("getById", id, Undefined, r.ret, r.thrown)

CallAll ==
    /\ UNCHANGED products
    /\ Returned("all", Undefined, Undefined, Arr(all(products)), FALSE)

CallGetById(id) == Found(id, getById(products, id))

CallAdd(product) ==
    /\ products' = add(products, product)
    /\ Returned("add", Undefined, product, Undefined, FALSE)

CallRemove(id) == Modified("remove", id, Undefined, remove(products, id))

CallUpdate(id, data) == Modified("update", id, data, update(products, id, data))

NextStore ==
    \/ CallAll
    \/ \E id \in Ids : CallGetById(id)
    \/ \E product \in Values : CallAdd(product)
    \/ \E id \in Ids : CallRemove(id)
    \/ \E id \in Ids, data \in Values : CallUpdate(id, data)

SpecStore == Init /\ [][NextStore]_vars

(***************************************************************************)
(* The properties.  They speak of the store in their own terms: a record   *)
(* has id X when it is an object whose id property is the number X.        *)
(***************************************************************************)
\* The value of property key of a stored value, undefined when it has none.
Field(v, key) ==
    IF v.k = "object" /\ \E j \in 1..Len(v.p) : v.p[j].key = key
    THEN v.p[CHOOSE j \in 1..Len(v.p) : v.p[j].key = key].val
    ELSE Undefined

\* The positions of the records with the given id.
WithId(ps, id) == { i \in 1..Len(ps) : Field(ps[i], "id") = id }

\* The position of the first record with the given id.
FirstWithId(ps, id) == CHOOSE i \in WithId(ps, id) : \A j \in WithId(ps, id) : i <= j

\* The list without its i-th element.
Without(ps, i) == [j \in 1..(Len(ps) - 1) |-> IF j < i THEN ps[j] ELSE ps[j + 1]]

\* The fields an update may change.
Updatable == {"title", "sku", "price"}

\* The property names of a stored value.
Keys(v) == IF v.k = "object" THEN { v.p[j].key : j \in 1..Len(v.p) } ELSE {}

\* The step is a call of op on the store.
Calls(op) == last'.ev = "call" /\ last'.op = op

\* C1: remove(id) returns false and leaves the store unchanged when no
\* record has that id; otherwise it returns true and deletes exactly the
\* first record with that id, keeping the others and their order.
C1_RemoveContract ==
    [][Calls("remove") =>
        /\ ~last'.thrown
        /\ IF WithId(products, last'.id) = {}
           THEN last'.ret = Bool(FALSE) /\ products' = products
           ELSE /\ last'.ret = Bool(TRUE)
                /\ products' = Without(products, FirstWithId(products, last'.id))]_vars

\* C2: an update whose partial record carries price 0, or an empty title
\* and an empty sku, stores those values in the first record with the id.
C2_FalsyValuesApplied ==
    [][Calls("update") /\ WithId(products, last'.id) # {} =>
        /\ Field(last'.arg, "price") = Num(0) =>
               /\ ~last'.thrown
               /\ Field(products'[FirstWithId(products, last'.id)], "price") = Num(0)
        /\ Field(last'.arg, "title") = Str("") /\ Field(last'.arg, "sku") = Str("") =>
               /\ ~last'.thrown
               /\ Field(products'[FirstWithId(products, last'.id)], "title") = Str("")
               /\ Field(products'[FirstWithId(products, last'.id)], "sku") = Str("")]_vars

\* The record at position i keeps every field that the partial record data
\* does not supply among title, sku and price.
KeepsOtherFields(old, new, data) ==
    \A key \in Keys(old) \cup Keys(new) \cup Updatable :
        key \notin Updatable \/ Field(data, key) = Undefined
            => Field(new, key) = Field(old, key)

\* C3: update(id, data) with a partial record returns true exactly when a
\* record with the id exists; it changes nothing when none exists, and
\* otherwise changes only the first such record, and of it only the fields
\* among title, sku and price that data supplies.
C3_UpdateFrame ==
    [][Calls("update") /\ last'.arg.k = "object" =>
        /\ ~last'.thrown
        /\ last'.ret = Bool(WithId(products, last'.id) # {})
        /\ Len(products') = Len(products)
        /\ \A i \in 1..Len(products) :
               IF WithId(products, last'.id) # {} /\ i = FirstWithId(products, last'.id)
               THEN KeepsOtherFields(products[i], products'[i], last'.arg)
               ELSE products'[i] = products[i]]_vars

\* The store before its last record was appended.
Front(ps) == SubSeq(ps, 1, Len(ps) - 1)

\* C4: add appends its argument unchanged at the end of the list, all()
\* lists the records in that order, and getById(X) right after add(r),
\* where r has the integer id X that no earlier record has, returns r.
C4_AddThenGetById ==
    [][/\ Calls("add") => products' = Append(products, last'.arg)
       /\ Calls("all") => ~last'.thrown /\ last'.ret = Arr(products)
       /\ /\ last.ev = "call" /\ last.op = "add"
          /\ Field(last.arg, "id").k = "number"
          /\ WithId(Front(products), Field(last.arg, "id")) = {}
          /\ Calls("getById") /\ last'.id = Field(last.arg, "id")
          => ~last'.thrown /\ last'.ret = last.arg]_vars

\* The item URLs of the runs and the integer id each of them names.
ItemUrls == {Path1001, Path2000}
IdOf(url) == IF url = Path1001 THEN Num(1001) ELSE Num(2000)

\* The step is the arrival of a request with the given method.
Arrives(method) == last'.ev = "request" /\ last'.method = method

\* The JSON response with the given status and value.
Json(status, v) == Response(status, "application/json", JSONstringify(v))

\* The answer 200 that carries the record p.
Ok(p) == Json(200, Obj(<<Prop("status", Str("OK")), Prop("product", p)>>))

\* The answer 404 of the item routes.
NotFound == Json(404, Obj(<<Prop("status", Str("Not Found"))>>))

\* The record the client sent in the body of the request of event e.
Posted(e) == JSONparse(e.sent).v

\* C5: when POST /products with a JSON record of integer id X, which no
\* record of the store has, is answered 201, a GET /products/X that
\* arrives next is answered 200 with exactly the posted record.
C5_CreateThenRead ==
    [][/\ last.ev = "end" /\ last.method = "POST" /\ last.response.status = 201
       /\ Field(Posted(last), "id").k = "number"
       /\ WithId(Front(products), Field(Posted(last), "id")) = {}
       /\ Arrives("GET") /\ last'.url \in ItemUrls
       /\ IdOf(last'.url) = Field(Posted(last), "id")
       => last'.response = Ok(Posted(last))]_vars

\* C6: in every reachable store, once DELETE /products/{id} has been
\* answered 200, a GET /products/{id} that arrives next is answered 404.
C6_DeleteThenRead ==
    [][/\ last.ev = "request" /\ last.method = "DELETE" /\ last.url \in ItemUrls
       /\ last.response.status = 200
       /\ Arrives("GET") /\ last'.url = last.url
       => last'.response.status = 404]_vars

\* C7: GET /products/{id} with an integer id is answered 200 with
\* {status: "OK", product: p}, p the first record in store order with that
\* id, when there is one, and 404 with {status: "Not Found"} otherwise; the
\* store is unchanged either way.
C7_GetProduct ==
    [][Arrives("GET") /\ last'.url \in ItemUrls =>
        /\ products' = products
        /\ last'.response =
               IF WithId(products, IdOf(last'.url)) = {} THEN NotFound
               ELSE Ok(products[FirstWithId(products, IdOf(last'.url))])]_vars

\* A syntactically valid integer literal: decimal digits, at least one,
\* after an optional minus sign.
IsIntegerLiteral(seg) ==
    /\ seg # <<>>
    /\ \A i \in 1..Len(seg) :
           seg[i] \in {"0", "1", "2", "3", "4", "5", "6", "7", "8", "9"}
           \/ (i = 1 /\ seg[i] = "-" /\ Len(seg) > 1)

\* The path of a URL: what precedes its first question mark.
PathOf(url) ==
    IF \E i \in 1..Len(url) : url[i] = "?"
    THEN SubSeq(url, 1, (CHOOSE i \in 1..Len(url) :
                            url[i] = "?" /\ \A j \in 1..(i - 1) : url[j] # "?") - 1)
    ELSE url

\* The text after /products/ in a path that starts so.
ItemPrefix == PathProducts \o <<"/">>
IsItemPath(path) == StartsWith(path, ItemPrefix)
IdSegment(path) == SubSeq(path, Len(ItemPrefix) + 1, Len(path))

\* The 404 HTML fallback.
Fallback == Response(404, "text/html", <<Raw("<h1>404 | Not Found</h1>")>>)

\* The step ran the fallback and nothing else: 404 HTML, store untouched,
\* no listener left behind.
FellThrough ==
    /\ last'.route = "fallback" /\ ~last'.thrown
    /\ last'.response = Fallback
    /\ products' = products /\ pending' = pending

\* C8: a GET, PATCH or DELETE of /products/<seg> whose <seg> is not a
\* syntactically valid integer literal falls through to the 404 HTML
\* fallback; the store is neither read by id nor modified.
C8_ItemRoutesNeedIntegerLiteral ==
    [][/\ last'.ev = "request" /\ last'.method \in {"GET", "PATCH", "DELETE"}
       /\ IsItemPath(PathOf(last'.url))
       /\ ~IsIntegerLiteral(IdSegment(PathOf(last'.url)))
       => FellThrough]_vars

\* The route that the listed rules, read in their order, give a method and
\* a path; "fallback" when no listed rule covers the pair.
ListedRoute(method, path) ==
    IF method = "GET" /\ path \in {PathRoot, PathHome} THEN "home"
    ELSE IF method = "GET" /\ path = PathPlainText THEN "plain-text"
    ELSE IF method = "GET" /\ path = PathJson THEN "json"
    ELSE IF method = "GET" /\ path = PathEcho THEN "echo"
    ELSE IF method = "GET" /\ StartsWith(path, PathStatic) THEN "static"
    ELSE IF method = "GET" /\ path = PathProducts THEN "GET /products"
    ELSE IF method = "POST" /\ path = PathProducts THEN "POST /products"
    ELSE IF /\ method \in {"GET", "PATCH", "DELETE"}
            /\ IsItemPath(path) /\ IsIntegerLiteral(IdSegment(path))
    THEN IF method = "GET" THEN "GET /products/{product}"
         ELSE IF method = "PATCH" THEN "PATCH /products/{product}"
         ELSE "DELETE /products/{product}"
    ELSE "fallback"

\* C9: every request runs the one handler that the listed rules give its
\* method and path, and a pair that no listed rule covers is answered by
\* the 404 HTML fallback and leaves the store unchanged.
C9_FirstMatchDispatch ==
    [][last'.ev = "request" =>
        /\ last'.route = ListedRoute(last'.method, PathOf(last'.url))
        /\ ListedRoute(last'.method, PathOf(last'.url)) = "fallback" => FellThrough]_vars

\* The routes that read a body.
BodyRoutes == {"POST /products", "PATCH /products/{product}"}

\* The step sends nothing and leaves the store as it is.
Silent == last'.response = NoResponse /\ products' = products /\ ~last'.thrown

\* The record with the id of the URL took every field among title, sku and
\* price that data supplies.
Patched(url, data) ==
    /\ WithId(products, IdOf(url)) # {}
    /\ \A key \in Updatable :
           Field(data, key) \notin {Undefined, Null} =>
               Field(products'[FirstWithId(products, IdOf(url))], key) = Field(data, key)

\* C10: for POST /products and PATCH /products/{id}, the arrival of the
\* request and of each piece of its body sends nothing and leaves the
\* store alone; a response or a mutation comes only with the end-of-body
\* event, when the pieces received make up the whole body and that body is
\* well-formed JSON: POST then appends the parsed value and answers 201,
\* PATCH answers 404 with the store unchanged or 200 with the record updated.
C10_BodyProtocol ==
    [][/\ last'.ev = "data" \/ (last'.ev = "request" /\ last'.route \in BodyRoutes)
          => Silent
       /\ last'.ev = "end" => BufferConcat(last'.reqDataChunks) = last'.sent
       /\ last'.ev = "end" /\ (last'.response # NoResponse \/ products' # products) =>
           /\ JSONparse(last'.sent).ok
           /\ IF last'.method = "POST"
              THEN /\ last'.response.status = 201
                   /\ products' = Append(products, Posted(last'))
              ELSE \/ last'.response.status = 404 /\ products' = products
                   \/ /\ last'.response.status = 200
                      /\ Patched(last'.url, Posted(last'))]_vars

\* A POST /products whose body came in two pieces has been answered 201
\* at its end-of-body event, the parsed body now last in the store.
C10_Witness ==
    /\ last.ev = "end" /\ last.method = "POST" /\ last.response.status = 201
    /\ Len(last.reqDataChunks) = 2
    /\ products # <<>> /\ products[Len(products)] = Posted(last)

(***************************************************************************)
(* Static serving on its own: GET requests for the files of the public     *)
(* directory, for a missing file, for the directory itself and for paths   *)
(* with a .. segment, and the events of their read streams.                *)
(***************************************************************************)
MissingTxt == <<"m", "i", "s", "s", "i", "n", "g", ".", "t", "x", "t">>
UpServerJs == <<".", ".", "/">> \o ServerJs
UpMissing == <<".", ".", "/">> \o MissingTxt
StaticRests == PublicFiles \cup { MissingTxt, <<>>, UpServerJs, UpMissing }
StaticUrls == { PathStatic \o rest : rest \in StaticRests }

StaticReqs == 2

NextStatic ==
    \/ Requests({"GET"}, StaticUrls, {BodyNone}, StaticReqs)
    \/ StreamEvents

SpecStatic == Init /\ [][NextStatic]_vars

\* What follows /static/ in the URL of an event.
RestOf(e) == SubSeq(PathOf(e.url), Len(PathStatic) + 1, Len(PathOf(e.url)))

\* The Content-Type the extension table gives each file of the public
\* directory.
TypeOf ==
    { <<IndexHtml, "text/html">>, <<CatJpg, "image/jpeg">>, <<PhotoJPG, "image/jpeg">>,
      <<PicJpeg, "image/jpeg">>, <<LogoPng, "image/png">>, <<StyleCss, "text/css">>,
      <<AppJs, "application/javascript">>, <<DocPdf, "application/pdf">>,
      <<DataCsv, "text/csv">>, <<NotesTxt, "text/plain">>,
      <<Readme, "application/octet-stream">>, <<ArchiveZip, "application/octet-stream">>,
      <<DotEnv, "application/octet-stream">> }

\* The head of the answer to a GET of an existing file of the given type.
Head200(type) == Response(200, type, <<>>)

\* C11: a GET of /static/<rest> is answered 404 by the HTML fallback when
\* no file is at <rest>, and otherwise 200 with the Content-Type of the
\* extension table, whatever the case of the extension, and with
\* application/octet-stream for any other extension or none; the answer
\* that the finished stream completes is that same 200.
C11_StaticContentType ==
    [][/\ Arrives("GET") /\ RestOf(last') = MissingTxt => last'.response = Fallback
       /\ \A t \in TypeOf :
            /\ Arrives("GET") /\ RestOf(last') = t[1] => last'.response = Head200(t[2])
            /\ last'.ev = "stream-end" /\ RestOf(last') = t[1]
                 => last'.response = Head200(t[2])]_vars

\* The stream of photo.JPG has finished: 200, image/jpeg.
C11_Witness ==
    /\ last.ev = "stream-end" /\ RestOf(last) = PhotoJPG
    /\ last.response = Head200("image/jpeg")

\* C12: when the read stream of a static request fails after the existence
\* check passed, the client receives one response, and it is the 500 HTML
\* page, not the 200 of the success path.
C12_StreamErrorAnswered500 ==
    [][last'.ev = "stream-error" =>
        /\ ~last'.thrown
        /\ last'.response =
               Response(500, "text/html; charset=utf-8",
                        <<Raw("<h1>500 | Internal Server Error</h1>")>>)]_vars

\* The answer of GET /echo for an input, given with its upper-casing and
\* its reversal.
Echoed(normal, shouty, backwards) ==
    Json(200, Obj(<<Prop("normal", Chars(normal)), Prop("shouty", Chars(shouty)),
                    Prop("characterCount", Num(Len(normal))),
                    Prop("backwards", Chars(backwards))>>))

\* The query strings of the /echo requests.
InputIs == <<"?", "i", "n", "p", "u", "t", "=">>
InputTwice == InputIs \o <<"a", "&", "i", "n", "p", "u", "t", "=", "b">>

\* The answers that fit a URL of /echo: the one computed from its input,
\* from "Hello" without one, from either value of an input given twice.
EchoAnswers(url) ==
    IF url \in {PathEcho, PathEcho \o InputIs}
    THEN {Echoed(Hello, <<"H", "E", "L", "L", "O">>, <<"o", "l", "l", "e", "H">>)}
    ELSE IF url = PathEcho \o InputIs \o <<"a", "B">>
    THEN {Echoed(<<"a", "B">>, <<"A", "B">>, <<"B", "a">>)}
    ELSE IF url = PathEcho \o InputTwice
    THEN {Echoed(<<"a">>, <<"A">>, <<"a">>), Echoed(<<"b">>, <<"B">>, <<"b">>)}
    ELSE {}

\* C13: every GET /echo is answered 200 with normal, shouty,
\* characterCount and backwards computed from the query parameter input,
\* "Hello" when it is absent or empty, for every query string, one that
\* repeats the input key included.
C13_EchoAnswers ==
    [][Arrives("GET") /\ PathOf(last'.url) = PathEcho =>
        ~last'.thrown /\ last'.response \in EchoAnswers(last'.url)]_vars

\* The event belongs to a request of a body route whose whole body is not
\* well-formed JSON.
Malformed(e) ==
    /\ e.ev \in {"request", "data", "end"}
    /\ e.method \in {"POST", "PATCH"}
    /\ e.ev = "request" => e.route \in BodyRoutes
    /\ ~JSONparse(e.sent).ok

\* C14: a POST /products or PATCH /products/{id} whose body is not
\* well-formed JSON is unhandled: at its end-of-body event the parse
\* throws, and no step of that request, the end-of-body step included,
\* changes the store or sends a response.
C14_MalformedBodyUnhandled ==
    [][/\ last'.ev \in {"data", "end"} /\ Malformed(last')
            => last'.response = NoResponse /\ products' = products
       /\ last'.ev = "end" /\ Malformed(last')
            => /\ last'.thrown
               /\ \A p \in pending' : p.n # last'.n]_vars

\* The end-of-body event of a POST whose body, received in two pieces, is
\* cut off in the middle: the handler has thrown, the store is the seed.
C14_Witness ==
    /\ last.ev = "end" /\ last.method = "POST" /\ last.sent = BodyBroken
    /\ Len(last.reqDataChunks) = 2
    /\ last.thrown /\ last.response = NoResponse /\ products = SeedProducts

\* The path lies inside the public directory.
InsidePublic(filePath) ==
    Len(filePath) >= 2 /\ SubSeq(filePath, 1, 2) = <<Dirname, Public>>

\* C15: static serving only reads files under the public directory: the
\* path that a GET of /static/<rest> checks for existence, and the path of
\* every read stream it opens, lies inside the public directory, also when
\* <rest> contains .. segments.
C15_StaticStaysInPublic ==
    [][Arrives("GET") /\ StartsWith(PathOf(last'.url), PathStatic) =>
        /\ InsidePublic(PathJoin(RestOf(last')))
        /\ \A p \in pending' : p.listen = "stream" => InsidePublic(p.file)]_vars

\* C16: writes take effect in the order in which bodies complete, not in
\* the order of arrival: at its end-of-body event a POST puts its record
\* after all that the store holds at that moment, the records of requests
\* that arrived later included, and every other pending request, those
\* that arrived earlier too, stays pending with its write still to come.
C16_BodyCompletionOrder ==
    [][last'.ev = "end" /\ last'.method = "POST" /\ ~last'.thrown
          => /\ products' = Append(products, Posted(last'))
             /\ \A q \in pending : q.n # last'.n => q \in pending']_vars

\* Two POSTs: the first to arrive is the last to end, and its record
\* stands after the record of the second.
C16_Witness ==
    /\ nreq = 2 /\ last.ev = "end" /\ last.method = "POST" /\ last.n = 1
    /\ Len(products) = Len(SeedProducts) + 2
    /\ products[Len(products)] = Posted(last)
    /\ products[Len(products) - 1] # Posted(last)

(***************************************************************************)
(* Reads and writes of the REST routes side by side, every PATCH and POST  *)
(* with the body {"title":"","sku":""} or with none.                       *)
(***************************************************************************)
NextPatches ==
    \/ Requests(RestMethods, {PathProducts, Path1001}, {BodyNone, BodyBlank}, BodyReqs)
    \/ BodyEvents(MaxChunks)

SpecPatches == Init /\ [][NextPatches]_vars

\* The record carries all of the body {"title":"","sku":""} or none of it.
Whole(rec) == Field(rec, "title") = Str("") <=> Field(rec, "sku") = Str("")

\* The records of the store are whole.
AllWhole(ps) == \A i \in 1..Len(ps) : Whole(ps[i])

\* The answer of GET /products that shows the store ps.
Listed(ps) ==
    Json(200, Obj(<<Prop("status", Str("OK")), Prop("products", Arr(ps))>>))

\* C17: under every interleaving of requests, a GET /products or
\* GET /products/{id} answered 200 shows the store as it stands between
\* two whole mutations: every record shown carries all the fields of a
\* PATCH or none, and the list shown is the store before or after an add or
\* a remove, one record longer or shorter, never a state in between.
C17_WholeMutations ==
    [][/\ AllWhole(products')
       /\ Len(products') - Len(products) \in {-1, 0, 1}
       /\ Arrives("GET") /\ last'.route = "GET /products"
            => last'.response = Listed(products) /\ AllWhole(products)
       /\ Arrives("GET") /\ last'.route = "GET /products/{product}"
                         /\ last'.response.status = 200
            => \E i \in 1..Len(products) :
                   Whole(products[i]) /\ last'.response = Ok(products[i])]_vars

\* GET /products/1001 arrives while half of the body of a PATCH of 1001
\* has been received: the record shown is the seeded one, with nothing of
\* the PATCH applied.
C17_Witness ==
    /\ last.ev = "request" /\ last.method = "GET" /\ last.url = Path1001
    /\ last.response = Ok(SeedProducts[1])
    /\ \E p \in pending : /\ p.method = "PATCH" /\ p.url = Path1001
                          /\ p.reqDataChunks # <<>> /\ p.rest # <<>>

\* The ids of the records of a store, in order.
IdsOf(ps) == [i \in 1..Len(ps) |-> Field(ps[i], "id")]

\* The routes that write to the store.
WriteRoutes ==
    {"POST /products", "PATCH /products/{product}", "DELETE /products/{product}"}

\* C18: the store starts with the three seeded records, ids 1001, 1002,
\* 1003 in that order, and changes only in a step of POST /products,
\* PATCH /products/{id} or DELETE /products/{id}: every other request
\* leaves it unchanged, a completed POST makes it one longer, a DELETE
\* answered 200 one shorter, and a PATCH or a request answered 404 leaves
\* its length unchanged.
C18_StoreFrame ==
    /\ IdsOf(products) = <<Num(1001), Num(1002), Num(1003)>>
    /\ [][/\ products' # products =>
               /\ last'.route \in WriteRoutes
               /\ last'.ev = (IF last'.method = "DELETE" THEN "request" ELSE "end")
          /\ last'.ev = "end" /\ last'.method = "POST" /\ last'.response.status = 201
               => Len(products') = Len(products) + 1
          /\ Arrives("DELETE") /\ last'.response.status = 200
               => Len(products') = Len(products) - 1
          /\ last'.method = "PATCH" \/ last'.response.status = 404
               => Len(products') = Len(products)]_vars

\* DELETE /products/1001 has been answered 200 on the seeded store: two
\* records are left.
C18_Witness ==
    /\ last.ev = "request" /\ last.method = "DELETE" /\ last.url = Path1001
    /\ last.response.status = 200
    /\ IdsOf(products) = <<Num(1002), Num(1003)>>

\* C19: update(id, partial) skips a field among title, sku and price only
\* when partial does not have it: each of these fields that partial has,
\* with the value null too, is the stored value afterwards.
C19_PresentFieldsOverwrite ==
    [][Calls("update") /\ last'.arg.k = "object" /\ WithId(products, last'.id) # {} =>
        \A key \in Updatable \cap Keys(last'.arg) :
            Field(products'[FirstWithId(products, last'.id)], key)
                = Field(last'.arg, key)]_vars

\* The routes that read or write the store in the request step.
ScanRoutes == {"GET /products", "GET /products/{product}", "DELETE /products/{product}"}

\* C20: after any history of requests with well-formed JSON bodies, null,
\* arrays and objects without an id among them, a request of a REST route
\* whose body, if it has one, has been received whole and is well-formed
\* JSON is answered 200, 201 or 404: no handler throws while it scans the
\* store or applies a partial update.
C20_StaysAnswerable ==
    [][\/ last'.ev = "request" /\ last'.route \in ScanRoutes
       \/ last'.ev = "end" /\ JSONparse(last'.sent).ok
       => /\ ~last'.thrown
          /\ last'.response.status \in {200, 201, 404}]_vars
=============================================================================
